---- MODULE Spec2Model ----
(***************************************************************************)
(* Model of analyse.py: CodeScanner (three regex rule tables, scan_file,   *)
(* generate_report) and main (the loop over the discovered files).         *)
(*                                                                         *)
(* Text is a sequence of one-character strings.  Regular expressions are   *)
(* modelled by what Python's backtracking matcher does: Ends(r, s, i) is   *)
(* the list, in the matcher's order of preference, of the positions where  *)
(* a match of r that starts at position i of s can end; the matcher        *)
(* returns the first one.                                                  *)
(***************************************************************************)
EXTENDS Integers, Sequences, FiniteSets, TLC

\* ------------------------------------------------------------------ bounds

\* the largest number of files the discovery (glob) returns
MaxFiles == 3

\* the largest number of text fragments a scanned file is built from
MaxTokens == 2

\* ------------------------------------------------------------------- text

\* a string as the sequence of its characters
Chars(str) == [i \in 1..Len(str) |-> SubSeq(str, i, i)]

\* F applied to the value of v, with v evaluated a single time
Once(v, F(_)) == CHOOSE y \in {F(x) : x \in {v}} : TRUE

RECURSIVE FlattenRange(_, _, _)
\* the concatenation of ss[lo], ..., ss[hi]
FlattenRange(ss, lo, hi) ==
    IF lo > hi THEN <<>>
    ELSE IF lo = hi THEN ss[lo]
    ELSE FlattenRange(ss, lo, (lo + hi) \div 2)
         \o FlattenRange(ss, (lo + hi) \div 2 + 1, hi)

\* the concatenation of the n sequences ss[1], ..., ss[n]
Flatten(ss, n) == FlattenRange(ss, 1, n)

NL == "\n"

\* the positions of the newlines of s
NLPos(s) == {i \in 1..Len(s) : s[i] = NL}

\* the position of the k-th newline of s; 0 for k = 0, Len(s) + 1 past the last
NthNL(s, k) ==
    IF k = 0 THEN 0
    ELSE IF k > Cardinality(NLPos(s)) THEN Len(s) + 1
    ELSE CHOOSE p \in NLPos(s) : Cardinality({q \in NLPos(s) : q < p}) = k - 1

\* content.split('\n'): one piece more than there are newlines, '' gives ['']
Split(content) ==
    [k \in 1..(Cardinality(NLPos(content)) + 1) |->
        SubSeq(content, NthNL(content, k - 1) + 1, NthNL(content, k) - 1)]

\* ------------------------------------------------- regular expressions (re)

LowerCase == Chars("abcdefghijklmnopqrstuvwxyz")
UpperCase == Chars("ABCDEFGHIJKLMNOPQRSTUVWXYZ")
Digits == Chars("0123456789")

Range(f) == {f[i] : i \in DOMAIN f}

\* \w
WordChars == Range(LowerCase) \cup Range(UpperCase) \cup Range(Digits) \cup {"_"}

\* \s, on the characters of the inputs considered
SpaceChars == {" ", "\t", "\n", "\r", "\f"}

\* the case folding of (?i) on ASCII letters
Lower(c) ==
    IF \E k \in 1..Len(UpperCase) : UpperCase[k] = c
    THEN LowerCase[CHOOSE k \in 1..Len(UpperCase) : UpperCase[k] = c]
    ELSE c

\* the nodes of a compiled pattern: a literal string (icase under (?i)), a
\* character class, a sequence, an alternation, a character class repeated min
\* or more times (lazy is the ? after the quantifier), a negative lookahead
Lit(str) == [t |-> "lit", cs |-> Chars(str), icase |-> FALSE]
ILit(str) == [t |-> "lit", cs |-> Chars(str), icase |-> TRUE]
Cls(name) == [t |-> "cls", name |-> name]
Cat(rs) == [t |-> "cat", rs |-> rs]
Alt(rs) == [t |-> "alt", rs |-> rs]
Rep(name, min, lazy) == [t |-> "rep", name |-> name, min |-> min, lazy |-> lazy]
NotAhead(r) == [t |-> "nla", r |-> r]
Malformed == [t |-> "error"]

\* membership of a character in a class
InClass(name, c) ==
    CASE name = "space" -> c \in SpaceChars
      [] name = "word" -> c \in WordChars
      [] name = "dot" -> c # NL
      [] name = "notcomma" -> c # ","
      [] name = "notparen" -> c # ")"
      [] name = "notslash" -> c # "/"

\* the literal cs is at position i of s
LitAt(cs, icase, s, i) ==
    /\ i + Len(cs) - 1 <= Len(s)
    /\ \A k \in 1..Len(cs) :
          IF icase THEN Lower(s[i + k - 1]) = Lower(cs[k]) ELSE s[i + k - 1] = cs[k]

\* the number of consecutive characters of the class from position i of s
RunLen(name, s, i) ==
    LET out == {k \in i..Len(s) : ~InClass(name, s[k])}
    IN IF out = {} THEN Len(s) + 1 - i
       ELSE (CHOOSE k \in out : \A j \in out : k <= j) - i

\* the ends of a repeated class: greedy gives the longest first, lazy the shortest
EndsRep(r, s, i) ==
    Once(RunLen(r.name, s, i), LAMBDA n :
        IF n < r.min THEN <<>>
        ELSE [j \in 1..(n - r.min + 1) |->
                 IF r.lazy THEN i + r.min + j - 1 ELSE i + n - j + 1])

RECURSIVE Ends(_, _, _), EndsCat(_, _, _, _), EndsAlt(_, _, _, _)

\* the ends of the matches of r at position i of s, most preferred first
Ends(r, s, i) ==
    CASE r.t = "lit" ->
            IF LitAt(r.cs, r.icase, s, i) THEN <<i + Len(r.cs)>> ELSE <<>>
      [] r.t = "cls" ->
            IF i <= Len(s) /\ InClass(r.name, s[i]) THEN <<i + 1>> ELSE <<>>
      [] r.t = "cat" -> EndsCat(r.rs, 1, s, i)
      [] r.t = "alt" -> EndsAlt(r.rs, 1, s, i)
      [] r.t = "rep" -> EndsRep(r, s, i)
      [] r.t = "nla" -> IF Ends(r.r, s, i) = <<>> THEN <<i>> ELSE <<>>

\* rs[k], rs[k+1], ... one after the other, from position i: every end of
\* rs[k], in order, continued by the rest
EndsCat(rs, k, s, i) ==
    IF k > Len(rs) THEN <<i>>
    ELSE Once(Ends(rs[k], s, i), LAMBDA first :
            Flatten([j \in 1..Len(first) |-> EndsCat(rs, k + 1, s, first[j])],
                    Len(first)))

\* rs[k] | rs[k+1] | ..., the earlier alternative preferred
EndsAlt(rs, k, s, i) ==
    IF k > Len(rs) THEN <<>>
    ELSE Ends(rs[k], s, i) \o EndsAlt(rs, k + 1, s, i)

\* the end of the match at position i, 0 when there is none (Pattern.match at pos)
MatchAt(r, s, i) == (Ends(r, s, i) \o <<0>>)[1]

\* the leftmost position from pos on where a match starts, 0 when there is none
NextStart(r, s, pos) ==
    IF \A i \in pos..(Len(s) + 1) : MatchAt(r, s, i) = 0 THEN 0
    ELSE CHOOSE i \in pos..(Len(s) + 1) :
            /\ MatchAt(r, s, i) # 0
            /\ \A j \in pos..(i - 1) : MatchAt(r, s, j) = 0

RECURSIVE FindIter(_, _, _)
\* re.finditer: the matches from position pos on, leftmost first, each search
\* starting where the previous match ended (one further after an empty match;
\* no pattern of the three tables matches the empty string)
FindIter(r, s, pos) ==
    Once(NextStart(r, s, pos), LAMBDA start :
        IF start = 0 THEN <<>>
        ELSE Once(MatchAt(r, s, start), LAMBDA end :
                <<[start |-> start, end |-> end]>>
                \o FindIter(r, s, IF end > start THEN end ELSE start + 1)))

\* match.group(): the matched text
Group(s, m) == SubSeq(s, m.start, m.end - 1)

\* ------------------------------------------------- CodeScanner.__init__

\* a pattern no regular expression compiler accepts (unterminated group)
BadPattern == "("

RepS1 == Rep("space", 1, FALSE)
RepS0 == Rep("space", 0, FALSE)
RepW1 == Rep("word", 1, FALSE)

\* require\(.+\);  (any character where the source excludes the comma)
RequireNoMessage_AnyChar ==
    [t |-> "cat",
     rs |-> <<[t |-> "lit", cs |-> Chars("require("), icase |-> FALSE],
              [t |-> "rep", name |-> "dot", min |-> 1, lazy |-> FALSE],
              [t |-> "lit", cs |-> Chars(");"), icase |-> FALSE]>>]

\* require\([^,]+\);
RequireNoMessage ==
    Cat(<<Lit("require("), Rep("notcomma", 1, FALSE), Lit(");")>>)

\* [^/]\/.+\/\/
TwoComments ==
    Cat(<<Cls("notslash"), Lit("/"), Rep("dot", 1, FALSE), Lit("//")>>)

\* re's compilation of the pattern texts of the three tables
Compile(p) ==
    CASE p = "claude" -> Lit("claude")
      [] p = "gpt" -> Lit("gpt")
      [] p = "copilot" -> Lit("copilot")
      [] p = "TODO:" -> Lit("TODO:")
      [] p = "FIXME:" -> Lit("FIXME:")
      [] p = "(?i)generated by" -> ILit("generated by")
      [] p = "(?i)ai generated" -> ILit("ai generated")
      [] p = "(?i)openai" -> ILit("openai")
      [] p = "(?i)anthropic" -> ILit("anthropic")
      [] p = "console\\.log\\(" -> Lit("console.log(")
      [] p = "// Out of context comment" -> Lit("// Out of context comment")
      [] p = "\\/\\/ Debug:" -> Lit("// Debug:")
      [] p = "(?i)note to self" -> ILit("note to self")
      [] p = "public\\s+(?:uint256|int256|bool|address|string)" ->
            Cat(<<Lit("public"), RepS1,
                  Alt(<<Lit("uint256"), Lit("int256"), Lit("bool"),
                        Lit("address"), Lit("string")>>)>>)
      [] p = "require\\([^,]+\\);" -> RequireNoMessage
      [] p = "function\\s+\\w+\\s*\\([^)]*\\)\\s*public(?!\\s+view|\\s+pure)" ->
            Cat(<<Lit("function"), RepS1, RepW1, RepS0, Lit("("),
                  Rep("notparen", 0, FALSE), Lit(")"), RepS0, Lit("public"),
                  NotAhead(Alt(<<Cat(<<RepS1, Lit("view")>>),
                                 Cat(<<RepS1, Lit("pure")>>)>>))>>)
      [] p = "[^/]\\/.+\\/\\/" -> TwoComments
      [] p = "storage\\s+\\w+" -> Cat(<<Lit("storage"), RepS1, RepW1>>)
      [] p = "uint\\s+i\\s*=\\s*0;\\s*i\\s*<" ->
            Cat(<<Lit("uint"), RepS1, Lit("i"), RepS0, Lit("="), RepS0, Lit("0;"),
                  RepS0, Lit("i"), RepS0, Lit("<")>>)
      [] p = "require\\((.+?),[^)]+\\)" ->
            Cat(<<Lit("require("), Rep("dot", 1, TRUE), Lit(","),
                  Rep("notparen", 1, FALSE), Lit(")")>>)
      [] p = BadPattern -> Malformed

AISuggestion == "Remove or refactor AI-generated indicator"
NamesSuggestion == "Consider using more specific variable names for public state variables"
MessageSuggestion == "Consider adding error messages to require statements"
ExternalSuggestion == "Consider if this function should be external instead of public"
CommentsSuggestion == "Multiple comments on same line - consider reformatting"
StorageSuggestion == "Consider caching storage variables in memory for multiple reads"
UncheckedSuggestion == "Consider unchecked block for loop counters"
ErrorsSuggestion == "Consider using custom errors instead of require with messages"

Rule(p, sug) == [pattern |-> p, suggestion |-> sug]

\* self.ai_indicators
ai_indicators ==
    << "claude", "gpt", "copilot", "TODO:", "FIXME:", "(?i)generated by",
       "(?i)ai generated", "(?i)openai", "(?i)anthropic", "console\\.log\\(",
       "// Out of context comment", "\\/\\/ Debug:", "(?i)note to self" >>

\* self.style_suggestions, in insertion order
style_suggestions ==
    << Rule("public\\s+(?:uint256|int256|bool|address|string)", NamesSuggestion),
       Rule("require\\([^,]+\\);", MessageSuggestion),
       Rule("function\\s+\\w+\\s*\\([^)]*\\)\\s*public(?!\\s+view|\\s+pure)",
            ExternalSuggestion),
       Rule("[^/]\\/.+\\/\\/", CommentsSuggestion) >>

\* self.gas_optimization_patterns, in insertion order
gas_optimization_patterns ==
    << Rule("storage\\s+\\w+", StorageSuggestion),
       Rule("uint\\s+i\\s*=\\s*0;\\s*i\\s*<", UncheckedSuggestion),
       Rule("require\\((.+?),[^)]+\\)", ErrorsSuggestion) >>

\* the three tables as the source writes them
DefaultTables ==
    [ai |-> ai_indicators, style |-> style_suggestions,
     gas |-> gas_optimization_patterns]

\* the configurations considered: the source's, and the source's with a
\* malformed pattern added to one table
TableChoices ==
    { DefaultTables,
      [DefaultTables EXCEPT !.ai = Append(@, BadPattern)],
      [DefaultTables EXCEPT !.style = Append(@, Rule(BadPattern, MessageSuggestion))],
      [DefaultTables EXCEPT !.gas = Append(@, Rule(BadPattern, ErrorsSuggestion))] }

\* the scanner before CodeScanner() has run
NoScanner == [ai |-> <<>>, style |-> <<>>, gas |-> <<>>]

\* ------------------------------------------------------------- the inputs

\* the text fragments the scanned files are built from
Tokens ==
    { NL, "// ", "x", "TODO:", "storage ", "require(x", ", x", ");" }

RECURSIVE TokenSeqs(_)
\* the sequences of at most n fragments
TokenSeqs(n) ==
    IF n = 0 THEN {<<>>}
    ELSE LET shorter == TokenSeqs(n - 1)
         IN shorter \cup {Append(ts, t) : ts \in shorter, t \in Tokens}

\* the text of a sequence of fragments
Text(ts) == Flatten([k \in 1..Len(ts) |-> Chars(ts[k])], Len(ts))

\* the line of the spec's require example
RequireLine == Chars("require(x > 0, \"must be positive\");")

\* the file contents of the multi-file runs: an empty file, a file with
\* findings of the gas table only, a file with findings of all three tables
Samples ==
    { Text(<<>>),
      Text(<<"storage x">>),
      Text(<<"// TODO: fix this", NL, "TODO: TODO:", NL, "require(a);", NL,
             "uint i = 0; i < 10; i++">>) }

\* further contents of the single-file runs
ScanSamples ==
    { RequireLine,
      Text(<<"x = 1;", NL>>),
      Text(<<"// a // b">>),
      Text(<<"x = 1; // a // b">>),
      Text(<<"storage storage x">>),
      Text(<<"require(a); require(b, \"m\"); require(c);">>) }

\* the file contents of the single-file runs
Contents == {Text(ts) : ts \in TokenSeqs(MaxTokens)} \cup Samples \cup ScanSamples

Readable(data) == [readable |-> TRUE, data |-> data]
Unreadable == [readable |-> FALSE, data |-> <<>>]

RECURSIVE FileLists(_, _)
\* the lists of at most n files drawn from kinds
FileLists(kinds, n) ==
    IF n = 0 THEN {<<>>}
    ELSE LET shorter == FileLists(kinds, n - 1)
         IN shorter \cup {Append(fs, f) : fs \in shorter, f \in kinds}

\* ---------------------------------------------------------------- state

VARIABLES
    pc,             \* where main is: start, loop, ai, style, gas, return, report, done, crashed
    error,          \* the uncaught exception: none, io (open/read), re (re.error)
    scanner,        \* the CodeScanner's three rule tables
    files,          \* the files of the discovered list, in glob's order
    cur,            \* the position of main's loop in the list
    lines,          \* content.split('\n') of the file being scanned
    idx,            \* the position of scan_file's for loop in lines
    line_number,    \* scan_file's counter
    ai_findings, style_findings, gas_findings,  \* scan_file's three lists
    findings,       \* main's findings: what the last scan_file returned
    returned,       \* every value scan_file returned so far, with the content read
    output          \* what has been printed

vars == <<pc, error, scanner, files, cur, lines, idx, line_number,
          ai_findings, style_findings, gas_findings, findings, returned, output>>

NoFindings == [ai |-> <<>>, style |-> <<>>, gas |-> <<>>]

InitRest ==
    /\ pc = "start"
    /\ error = "none"
    /\ scanner = NoScanner
    /\ cur = 1
    /\ lines = <<>>
    /\ idx = 0
    /\ line_number = 0
    /\ ai_findings = <<>>
    /\ style_findings = <<>>
    /\ gas_findings = <<>>
    /\ findings = NoFindings
    /\ returned = <<>>
    /\ output = <<>>

\* a run over at most MaxFiles files, each a sample or unreadable
Init ==
    /\ files \in FileLists({Readable(c) : c \in Samples} \cup {Unreadable}, MaxFiles)
    /\ InitRest

\* a run over one file built from at most MaxTokens fragments, or unreadable
InitScan ==
    /\ files \in {<<Readable(c)>> : c \in Contents} \cup {<<Unreadable>>}
    /\ InitRest

\* ------------------------------------------------- CodeScanner.scan_file

\* the dict with a line counted from 0
Finding_ZeroBased(n, rule, text) ==
    [line |-> n - 1, pattern |-> rule.pattern, match |-> text,
     suggestion |-> rule.suggestion]

\* the dict appended for one match on line number n
Finding(n, rule, text) ==
    [line |-> n, pattern |-> rule.pattern, match |-> text,
     suggestion |-> rule.suggestion]

\* the findings of one rule on one line with re.search in place of re.finditer:
\* the first match only
MatchesOf_First(rule, line, n) ==
    Once(FindIter(Compile(rule.pattern), line, 1), LAMBDA ms :
        [j \in 1..(IF Len(ms) > 0 THEN 1 ELSE 0) |->
            [line |-> n, pattern |-> rule.pattern, match |-> Group(line, ms[j]),
             suggestion |-> rule.suggestion]])

\* the findings of one rule on one line: one per match of re.finditer
MatchesOf(rule, line, n) ==
    Once(FindIter(Compile(rule.pattern), line, 1), LAMBDA ms :
        [j \in 1..Len(ms) |-> Finding(n, rule, Group(line, ms[j]))])

\* the number of rules the loop over a table gets through before re.finditer
\* raises re.error on a malformed pattern: all of them when none is malformed
Reached(rules) ==
    IF \A k \in 1..Len(rules) : Compile(rules[k].pattern).t # "error" THEN Len(rules)
    ELSE (CHOOSE k \in 1..Len(rules) :
            /\ Compile(rules[k].pattern).t = "error"
            /\ \A j \in 1..(k - 1) : Compile(rules[j].pattern).t # "error") - 1

\* the loop over the rules of one table on one line: found is what it appends,
\* raised says that it ended in re.error
ScanTable(rules, line, n) ==
    [found |-> Flatten([k \in 1..Reached(rules) |-> MatchesOf(rules[k], line, n)],
                       Reached(rules)),
     raised |-> Reached(rules) < Len(rules)]

\* the AI table as rules: every pattern has the same fixed suggestion
AIRules(patterns) == [k \in 1..Len(patterns) |-> Rule(patterns[k], AISuggestion)]

\* list.insert(0, ...) of the new findings
Extend_Front(list, found) == found \o list

\* list.append of the new findings, in order
Extend(list, found) == list \o found

\* ------------------------------------------- CodeScanner.generate_report

Item(kind, n, text, note) == [kind |-> kind, n |-> n, text |-> text, note |-> note]

\* the three prints of the header: border, title with the path, border
Header(path) ==
    << Item("border", 0, <<>>, ""), Item("title", path, <<>>, "Scan Results for"),
       Item("border", 0, <<>>, "") >>

\* the two prints of every finding of a list, in the list's order
Entries(list) ==
    Flatten([k \in 1..Len(list) |->
                << Item("entry", list[k].line, list[k].match, "Line"),
                   Item("suggestion", 0, <<>>, list[k].suggestion) >>],
            Len(list))

\* a category's section: nothing for an empty list
Section(title, list) ==
    IF list = <<>> THEN <<>>
    ELSE <<Item("section", 0, <<>>, title), Item("dashes", 0, <<>>, "")>>
         \o Entries(list)

\* not ai_findings: the other two lists forgotten
NoIssues_AIOnly(f) == f.ai = <<>>

\* not any([ai_findings, style_findings, gas_findings])
NoIssues(f) == ~(f.ai # <<>> \/ f.style # <<>> \/ f.gas # <<>>)

\* generate_report with the gas section printed before the style section
Report_GasFirst(f, path) ==
    Header(path)
    \o Section("AI Indicators Found:", f.ai)
    \o Section("Gas Optimization Suggestions:", f.gas)
    \o Section("Style Suggestions:", f.style)
    \o (IF f.ai = <<>> /\ f.style = <<>> /\ f.gas = <<>>
        THEN <<Item("ok", 0, <<>>, "No issues found!")>> ELSE <<>>)

\* everything generate_report prints for one file
Report(f, path) ==
    Header(path)
    \o Section("AI Indicators Found:", f.ai)
    \o Section("Style Suggestions:", f.style)
    \o Section("Gas Optimization Suggestions:", f.gas)
    \o (IF NoIssues(f) THEN <<Item("ok", 0, <<>>, "No issues found!")>> ELSE <<>>)

\* --------------------------------------------------------------- actions

\* CodeScanner() with __init__ compiling every pattern: a malformed one raises
\* re.error at construction
Construct_Compiling ==
    /\ pc = "start"
    /\ \E t \in TableChoices :
          /\ scanner' = t
          /\ IF /\ (\A k \in 1..Len(t.ai) : Compile(t.ai[k]).t # "error")
                /\ (\A k \in 1..Len(t.style) : Compile(t.style[k].pattern).t # "error")
                /\ (\A k \in 1..Len(t.gas) : Compile(t.gas[k].pattern).t # "error")
             THEN pc' = "loop" /\ error' = error
             ELSE pc' = "crashed" /\ error' = "re"
    /\ UNCHANGED <<files, cur, lines, idx, line_number, ai_findings,
                   style_findings, gas_findings, findings, returned, output>>

\* main: scanner = CodeScanner(); __init__ stores the pattern texts as they are
Construct ==
    /\ pc = "start"
    /\ \E t \in TableChoices : scanner' = t
    /\ pc' = "loop"
    /\ UNCHANGED <<error, files, cur, lines, idx, line_number, ai_findings,
                   style_findings, gas_findings, findings, returned, output>>

\* scan_file with the three lists kept from the previous scan
OpenOk_Stale ==
    /\ pc = "loop"
    /\ cur <= Len(files)
    /\ files[cur].readable
    /\ lines' = Split(files[cur].data)
    /\ idx' = 1
    /\ line_number' = 1
    /\ pc' = "ai"
    /\ UNCHANGED <<error, scanner, files, cur, ai_findings, style_findings,
                   gas_findings, findings, returned, output>>

\* scan_file up to the for loop: the file is read, split, and the lists are new
OpenOk ==
    /\ pc = "loop"
    /\ cur <= Len(files)
    /\ files[cur].readable
    /\ lines' = Split(files[cur].data)
    /\ idx' = 1
    /\ line_number' = 1
    /\ ai_findings' = <<>>
    /\ style_findings' = <<>>
    /\ gas_findings' = <<>>
    /\ pc' = "ai"
    /\ UNCHANGED <<error, scanner, files, cur, findings, returned, output>>

\* main catching the read error and going on with the next file
OpenFail_Skip ==
    /\ pc = "loop"
    /\ cur <= Len(files)
    /\ ~files[cur].readable
    /\ cur' = cur + 1
    /\ UNCHANGED <<pc, error, scanner, files, lines, idx, line_number, ai_findings,
                   style_findings, gas_findings, findings, returned, output>>

\* open or read raises; neither scan_file nor main catches it
OpenFail ==
    /\ pc = "loop"
    /\ cur <= Len(files)
    /\ ~files[cur].readable
    /\ pc' = "crashed"
    /\ error' = "io"
    /\ UNCHANGED <<scanner, files, cur, lines, idx, line_number, ai_findings,
                   style_findings, gas_findings, findings, returned, output>>

\* the loop over self.ai_indicators for the current line
ScanAI ==
    /\ pc = "ai"
    /\ LET r == ScanTable(AIRules(scanner.ai), lines[idx], line_number)
       IN /\ ai_findings' = Extend(ai_findings, r.found)
          /\ pc' = IF r.raised THEN "crashed" ELSE "style"
          /\ error' = IF r.raised THEN "re" ELSE error
    /\ UNCHANGED <<scanner, files, cur, lines, idx, line_number,
                   style_findings, gas_findings, findings, returned, output>>

\* the loop over self.style_suggestions for the current line
ScanStyle ==
    /\ pc = "style"
    /\ LET r == ScanTable(scanner.style, lines[idx], line_number)
       IN /\ style_findings' = Extend(style_findings, r.found)
          /\ pc' = IF r.raised THEN "crashed" ELSE "gas"
          /\ error' = IF r.raised THEN "re" ELSE error
    /\ UNCHANGED <<scanner, files, cur, lines, idx, line_number,
                   ai_findings, gas_findings, findings, returned, output>>

\* the loop over self.gas_optimization_patterns for the current line, then
\* line_number += 1 and the for loop's step to the next line
ScanGas ==
    /\ pc = "gas"
    /\ LET r == ScanTable(scanner.gas, lines[idx], line_number)
       IN /\ gas_findings' = Extend(gas_findings, r.found)
          /\ pc' = IF r.raised THEN "crashed"
                   ELSE IF idx + 1 <= Len(lines) THEN "ai" ELSE "return"
          /\ error' = IF r.raised THEN "re" ELSE error
          /\ line_number' = IF r.raised THEN line_number ELSE line_number + 1
          /\ idx' = IF r.raised THEN idx ELSE idx + 1
    /\ UNCHANGED <<scanner, files, cur, lines,
                   ai_findings, style_findings, findings, returned, output>>

\* return ai_findings, style_findings, gas_findings; main binds it to findings
Return ==
    /\ pc = "return"
    /\ findings' = [ai |-> ai_findings, style |-> style_findings, gas |-> gas_findings]
    /\ returned' = Append(returned, [content |-> files[cur].data, result |-> findings'])
    /\ pc' = "report"
    /\ UNCHANGED <<error, scanner, files, cur, lines, idx, line_number,
                   ai_findings, style_findings, gas_findings, output>>

\* scanner.generate_report(findings, filepath), then main's loop steps on
GenerateReport ==
    /\ pc = "report"
    /\ output' = output \o Report(findings, cur)
    /\ cur' = cur + 1
    /\ pc' = "loop"
    /\ UNCHANGED <<error, scanner, files, lines, idx, line_number, ai_findings,
                   style_findings, gas_findings, findings, returned>>

\* the list is exhausted: main returns
Finish ==
    /\ pc = "loop"
    /\ cur > Len(files)
    /\ pc' = "done"
    /\ UNCHANGED <<error, scanner, files, cur, lines, idx, line_number, ai_findings,
                   style_findings, gas_findings, findings, returned, output>>

Next ==
    \/ Construct
    \/ OpenOk
    \/ OpenFail
    \/ ScanAI
    \/ ScanStyle
    \/ ScanGas
    \/ Return
    \/ GenerateReport
    \/ Finish

\* the program's runs over the discovered files
Spec == Init /\ [][Next]_vars

\* the runs that scan a single file
SpecScan == InitScan /\ [][Next]_vars

\* ------------------------------------------------------ helpers of the claims

\* text occurs in line as a contiguous piece
Occurs(text, line) ==
    \E i \in 1..(Len(line) + 1) :
        /\ i + Len(text) - 1 <= Len(line)
        /\ SubSeq(line, i, i + Len(text) - 1) = text

\* what a step appended to a list
Appended(old, new) == SubSeq(new, Len(old) + 1, Len(new))

\* scan_file is inside its for loop
Scanning == pc \in {"ai", "style", "gas"}

\* the findings of the three local lists
LocalFindings == Range(ai_findings) \cup Range(style_findings) \cup Range(gas_findings)

\* the findings of a returned triple
ResultFindings(r) == Range(r.ai) \cup Range(r.style) \cup Range(r.gas)

\* the line numbers of a list never decrease
Sorted(list) == \A j \in 1..(Len(list) - 1) : list[j].line <= list[j + 1].line

\* main has printed the report of file cur - 1 and findings is still its triple
Reported == cur > 1 /\ pc \in {"loop", "done"}

\* the title print of the report of the file with this path is in the output
TitlePrinted(path) ==
    \E i \in 1..Len(output) : output[i].kind = "title" /\ output[i].n = path

\* the report printed last: the output from the border before its title on
LastReport ==
    LET p == CHOOSE i \in 1..Len(output) :
                 output[i].kind = "title" /\ output[i].n = cur - 1
    IN SubSeq(output, p - 1, Len(output))

Kinds(items) == [i \in 1..Len(items) |-> items[i].kind]

\* the kinds of the prints of one category: none for an empty list, else the
\* header, the dashes and two prints per finding
SectionKinds(list) ==
    IF list = <<>> THEN <<>>
    ELSE <<"section", "dashes">>
         \o [j \in 1..(2 * Len(list)) |-> IF j % 2 = 1 THEN "entry" ELSE "suggestion"]

\* the title of a category when its list is not empty
TitleIf(list, title) == IF list = <<>> THEN <<>> ELSE <<title>>

\* some pattern of the tables does not compile
HasMalformed(t) ==
    \/ \E k \in 1..Len(t.ai) : t.ai[k] = BadPattern
    \/ \E k \in 1..Len(t.style) : t.style[k].pattern = BadPattern
    \/ \E k \in 1..Len(t.gas) : t.gas[k].pattern = BadPattern

\* a line with two separate occurrences of the comment marker //
TwoMarkers(line) ==
    \E i, j \in 1..Len(line) :
        /\ j >= i + 2
        /\ j + 1 <= Len(line)
        /\ line[i] = "/" /\ line[i + 1] = "/"
        /\ line[j] = "/" /\ line[j + 1] = "/"

\* ---------------------------------------------------------------- claims

\* C1: every finding's line is the 1-based index, in the split on newlines, of
\* the line its matched text was found in; the first line is 1, never 0.
\* Every finding a step appends carries the position of the for loop in the
\* split and its text is a piece of that line; every finding of a returned
\* triple has a line number between 1 and the number of lines of the content
\* read, and its text is a piece of the line with that number.
C1_Returned ==
    \A k \in 1..Len(returned) :
        \A f \in ResultFindings(returned[k].result) :
            /\ f.line \in 1..Len(Split(returned[k].content))
            /\ Occurs(f.match, Split(returned[k].content)[f.line])

C1_Step ==
    \A f \in Range(Appended(ai_findings, ai_findings'))
             \cup Range(Appended(style_findings, style_findings'))
             \cup Range(Appended(gas_findings, gas_findings')) :
        /\ f.line = idx
        /\ f.line >= 1
        /\ Occurs(f.match, lines[idx])

C1_LineIsIndex == [](C1_Returned) /\ [][C1_Step]_vars

\* a returned triple with a finding on the first line and one on the second
C1_Witness ==
    /\ pc = "report"
    /\ \E f, g \in Range(findings.ai) :
          /\ f.line = 1 /\ Occurs(f.match, lines[1])
          /\ g.line = 2 /\ Occurs(g.match, lines[2])

\* C2: at every point of a scan and in the returned triple, the line numbers
\* of each of the three lists never decrease in list order, and inside the
\* loop none exceeds the line being processed.
C2_Monotone ==
    /\ Sorted(ai_findings) /\ Sorted(style_findings) /\ Sorted(gas_findings)
    /\ Sorted(findings.ai) /\ Sorted(findings.style) /\ Sorted(findings.gas)
    /\ Scanning => \A f \in LocalFindings : 1 <= f.line /\ f.line <= idx

\* inside the loop, a list that holds findings of two different lines
C2_Witness ==
    /\ Scanning
    /\ Len(ai_findings) >= 2
    /\ ai_findings[1].line < ai_findings[Len(ai_findings)].line

\* the spans ms are the matches of r in s taken left to right without overlap:
\* each is the match at its start, starts no earlier than the previous one
\* ends, and no match starts in the gaps or after the last one
LeftToRight(ms, r, s) ==
    /\ \A j \in 1..Len(ms) :
          /\ ms[j].end = MatchAt(r, s, ms[j].start)
          /\ ms[j].end > ms[j].start
          /\ \A i \in (IF j = 1 THEN 1 ELSE ms[j - 1].end)..(ms[j].start - 1) :
                MatchAt(r, s, i) = 0
    /\ \A i \in (IF ms = <<>> THEN 1 ELSE ms[Len(ms)].end)..(Len(s) + 1) :
          MatchAt(r, s, i) = 0

\* the findings of list on line k by the rule with pattern p are, in order,
\* the texts of the left-to-right non-overlapping matches of p in that line
OnePerMatch(list, k, p) ==
    LET got == SelectSeq(list, LAMBDA f : f.line = k /\ f.pattern = p)
        ms == FindIter(Compile(p), lines[k], 1)
    IN /\ LeftToRight(ms, Compile(p), lines[k])
       /\ Len(got) = Len(ms)
       /\ \A j \in 1..Len(ms) : got[j].match = Group(lines[k], ms[j])

\* every finding of list is on a line of the file and by a rule of the table,
\* and every rule has, on every line, one finding per match
TableExact(list, rules) ==
    /\ \A f \in Range(list) :
          /\ f.line \in 1..Len(lines)
          /\ \E j \in 1..Len(rules) : rules[j].pattern = f.pattern
    /\ \A k \in 1..Len(lines) :
          \A j \in 1..Len(rules) : OnePerMatch(list, k, rules[j].pattern)

C3_WitnessEmpty ==
    /\ pc = "report"
    /\ Len(lines) = 2
    /\ lines[2] = <<>>
    /\ findings = NoFindings

\* C4: generate_report for three empty lists prints the header and then exactly
\* the "no issues found" line and no category header; with a non-empty list the
\* "no issues found" line is not printed.
C4_NoIssuesLine ==
    Reported =>
        /\ TitlePrinted(cur - 1)
        /\ IF findings.ai = <<>> /\ findings.style = <<>> /\ findings.gas = <<>>
           THEN Kinds(LastReport) = <<"border", "title", "border", "ok">>
           ELSE \A i \in 1..Len(LastReport) : LastReport[i].kind # "ok"

\* the report of a file without findings has been printed
C4_Witness ==
    /\ Reported
    /\ findings = NoFindings
    /\ output[Len(output)].kind = "ok"

\* C5: generate_report prints the sections in the order AI, style, gas, each
\* exactly when its list is not empty, and in a section one entry per finding
\* in the list's order; a triple with gas findings only gives the gas section alone.
C5_Sections ==
    Reported =>
        /\ TitlePrinted(cur - 1)
        /\ LET rep == LastReport
               all == findings.ai \o findings.style \o findings.gas
               secs == SelectSeq(rep, LAMBDA it : it.kind = "section")
               ents == SelectSeq(rep, LAMBDA it : it.kind = "entry")
               sugs == SelectSeq(rep, LAMBDA it : it.kind = "suggestion")
           IN /\ Kinds(rep) = <<"border", "title", "border">>
                              \o SectionKinds(findings.ai)
                              \o SectionKinds(findings.style)
                              \o SectionKinds(findings.gas)
                              \o (IF all = <<>> THEN <<"ok">> ELSE <<>>)
              /\ [i \in 1..Len(secs) |-> secs[i].note]
                    = TitleIf(findings.ai, "AI Indicators Found:")
                      \o TitleIf(findings.style, "Style Suggestions:")
                      \o TitleIf(findings.gas, "Gas Optimization Suggestions:")
              /\ Len(ents) = Len(all)
              /\ Len(sugs) = Len(all)
              /\ \A j \in 1..Len(all) :
                    /\ ents[j].n = all[j].line
                    /\ ents[j].text = all[j].match
                    /\ sugs[j].note = all[j].suggestion

\* the report of a file with gas findings only: one section, the gas one
C5_Witness ==
    /\ Reported
    /\ findings.ai = <<>> /\ findings.style = <<>> /\ findings.gas # <<>>
    /\ Len(SelectSeq(LastReport, LAMBDA it : it.kind = "section")) = 1

\* C6 as claimed: a malformed pattern in a table makes the program fail at the
\* construction of the scanner, before any file is read, whatever the number
\* of files.
C6_FailsAtConstruction ==
    (pc # "start" /\ HasMalformed(scanner)) =>
        (pc = "crashed" /\ error = "re" /\ idx = 0)

\* C6 amended: the construction of the scanner never fails.  With a malformed
\* pattern in a table the program fails with re.error inside scan_file, on the
\* first line of the first discovered file after that file has been read, and
\* before any report is printed; when no file is discovered the program ends
\* without failing; when the first file cannot be read it fails with the read
\* error.
C6_FailsInFirstScan ==
    /\ (pc = "crashed" /\ error = "re") =>
          /\ HasMalformed(scanner)
          /\ files # <<>>
          /\ files[1].readable
          /\ idx = 1
    /\ HasMalformed(scanner) =>
          /\ cur = 1
          /\ output = <<>>
          /\ returned = <<>>
          /\ pc \in {"loop", "ai", "style", "gas", "crashed", "done"}
          /\ Scanning => idx = 1
          /\ pc = "done" => files = <<>>
          /\ pc = "crashed" =>
                IF files[1].readable THEN error = "re" /\ idx = 1 ELSE error = "io"

\* the program has failed with re.error in the scan of the first of several files
C6_Witness ==
    /\ pc = "crashed"
    /\ error = "re"
    /\ HasMalformed(scanner)
    /\ idx = 1
    /\ Len(files) >= 2

\* main never gets past a file that cannot be read, and when it has failed on
\* one, the output is the full reports of the files before it and nothing else
C7_State ==
    /\ \A j \in 1..(cur - 1) : j <= Len(files) => files[j].readable
    /\ (pc = "crashed" /\ error = "io") =>
          /\ cur <= Len(files)
          /\ ~files[cur].readable
          /\ Len(returned) = cur - 1
          /\ \A j \in 1..Len(files) : TitlePrinted(j) <=> j < cur
          /\ output = Flatten([j \in 1..(cur - 1) |-> Report(returned[j].result, j)],
                              cur - 1)

\* C7: when reading a file fails, nobody catches the error and the run halts:
\* no report for that file, no later file scanned or reported, and the reports
\* of the files before it printed in full.  Nothing happens after the failure.
C7_ReadErrorHalts == [](C7_State) /\ [][pc # "crashed"]_vars

\* the run has failed on the second of three files, after the first report
C7_Witness ==
    /\ pc = "crashed"
    /\ error = "io"
    /\ cur = 2
    /\ Len(files) = 3
    /\ output # <<>>

\* equal contents gave equal triples, and every finding of a triple is a piece
\* of a line of the content that was read for it
C8_State ==
    /\ \A i, j \in 1..Len(returned) :
          returned[i].content = returned[j].content
              => returned[i].result = returned[j].result
    /\ \A k \in 1..Len(returned) :
          \A f \in ResultFindings(returned[k].result) :
              /\ f.line \in 1..Len(Split(returned[k].content))
              /\ Occurs(f.match, Split(returned[k].content)[f.line])

\* a scan starts from three empty lists, and no step after the construction
\* changes the rule tables
C8_Step ==
    /\ (pc = "loop" /\ pc' = "ai") =>
          ai_findings' = <<>> /\ style_findings' = <<>> /\ gas_findings' = <<>>
    /\ pc # "start" => scanner' = scanner

\* C8: scan_file is idempotent and keeps no state between scans: the same
\* content scanned twice by the same scanner, with other scans and reports in
\* between, gives equal triples; every scan starts from three empty lists and
\* leaves the rule tables as they are; no finding of one file shows up in the
\* triple of another.
C8_Idempotent == [](C8_State) /\ [][C8_Step]_vars

\* the same content scanned first and third, another one in between
C8_Witness ==
    /\ Len(returned) = 3
    /\ returned[1].content = returned[3].content
    /\ returned[1].content # returned[2].content
    /\ returned[1].result.ai # <<>>
    /\ returned[1].result = returned[3].result

\* C9: every line with two comment markers gives a style finding with the
\* suggestion to reformat multiple comments, wherever the first marker is.
C9_TwoMarkersFound ==
    pc = "report" =>
        \A k \in 1..Len(lines) :
            TwoMarkers(lines[k]) =>
                \E f \in Range(findings.style) :
                    f.line = k /\ f.suggestion = CommentsSuggestion

\* C10: the line require(x > 0, "must be positive"); gives a finding of the
\* gas rule for require with a message and none of the style rule for require
\* without a message; what the style rule matches runs from "require(" to ");"
\* without a comma.
C10_RequireExample ==
    pc = "report" =>
        /\ files[cur].data = RequireLine =>
              /\ \E f \in Range(findings.gas) :
                    /\ f.line = 1
                    /\ f.suggestion = ErrorsSuggestion
                    /\ f.match = Chars("require(x > 0, \"must be positive\")")
              /\ \A f \in Range(findings.style) : f.suggestion # MessageSuggestion
        /\ \A f \in Range(findings.style) :
              f.suggestion = MessageSuggestion =>
                  /\ "," \notin Range(f.match)
                  /\ SubSeq(f.match, 1, 8) = Chars("require(")
                  /\ SubSeq(f.match, Len(f.match) - 1, Len(f.match)) = Chars(");")

\* the example line has been scanned
C10_Witness ==
    /\ pc = "report"
    /\ files[cur].data = RequireLine
    /\ findings.gas # <<>>
    /\ findings.style = <<>>
====
